---- MODULE Spec2Model ----
(***************************************************************************)
(* SmartCampusUCV_ai: the recommendation pipeline.                         *)
(*                                                                         *)
(*   ai/nlp/nlp_core.py        NLPModule (orchestrator and extractor)      *)
(*   ai/nlp/groq_manager.py    GroqManager                                 *)
(*   ai/nlp/gemini_manager.py  GeminiManager                               *)
(*   ai/nlp/ollama_manager.py  OllamaManager                               *)
(*   ai/nlp/prompt_creator.py  prompt builders                             *)
(*                                                                         *)
(* Scores are held in hundredths (0.8 is 80, 0.85 is 85, 5.0 is 500).      *)
(* A reply text is a sequence of fragments, in text order; a title is a    *)
(* sequence of characters.                                                 *)
(***************************************************************************)
EXTENDS Integers, Sequences, FiniteSets, TLC

VARIABLES
    actividades_disponibles,  \* extractor input: the candidate list
    response_text,            \* extractor input: the reply text
    xpc,                      \* extractor call: "ready" or "done"
    xout,                     \* what _extract_recommendations returned
    kind,                     \* which manager class the gateway object is
    mgr,                      \* the manager object's fields
    hist,                     \* the last operation on the manager
    reloads,                  \* number of reload() calls so far
    res,                      \* the last generate_recommendations call
    world,                    \* what the constructor met: listing or daemon
    proc,                     \* the spawned daemon process and its signals
    prompts,                  \* what the two prompt builders serialized
    gen,                      \* a generate call in progress: pc and reads
    rl                        \* a reload() call in progress: pc and config

xvars == <<actividades_disponibles, response_text, xpc, xout>>

lvars == <<world, proc, prompts, gen, rl>>

gvars == <<kind, mgr, hist, reloads, res, lvars>>

vars == <<actividades_disponibles, response_text, xpc, xout,
          kind, mgr, hist, reloads, res, world, proc, prompts, gen, rl>>

----------------------------------------------------------------------------
(* Bounds *)

MaxFrags == 3
MaxCands == 2
MaxRecs == 3
MaxReloads == 2
MaxModels == 2
MaxListing == 4
MaxCloses == 2
MaxCatalog == 45
MaxPieces == 3
MaxWords == 11

(* Program constants *)

PromptCap == 30
UserPromptCap == 30
KeywordCap == 20
MinKeywordLen == 2
DefaultScore == 80
TitleScore == 85
MinTitleLen == 3
retries == 30

----------------------------------------------------------------------------
(* Python values that a JSON object of the reply can hold *)

Num(v) == [t |-> "num", v |-> v]
NaN == [t |-> "nan", v |-> 0]
PyNone == [t |-> "none", v |-> 0]
Missing == [t |-> "missing", v |-> 0]

Reverse(s) == [i \in 1..Len(s) |-> s[Len(s) + 1 - i]]

----------------------------------------------------------------------------
(* Titles and text *)

Yoga == <<"Y", "o", "g", "a">>
YogaFlow == <<"Y", "o", "g", "a", " ", "F", "l", "o", "w">>
Art == <<" ", "A", "r", "t", " ">>
NoTitle == <<>>

RECURSIVE LStrip(_)
LStrip(s) == IF s # <<>> /\ Head(s) = " " THEN LStrip(Tail(s)) ELSE s

\* str.strip()
Strip(s) == Reverse(LStrip(Reverse(LStrip(s))))

\* Python's "sub in text" on character sequences
IsSubstring(sub, text) ==
    \E i \in 0..(Len(text) - Len(sub)) :
        \A j \in 1..Len(sub) : text[i + j] = sub[j]

----------------------------------------------------------------------------
(* Candidates *)

Cand(id, titulo, categoria) ==
    [id |-> id, titulo |-> titulo, categoria |-> categoria]

CandAlphabet ==
    { Cand(1, Yoga, "deportiva"),
      Cand(2, YogaFlow, "deportiva"),
      Cand(1, Art, "cultural"),
      Cand(0, YogaFlow, "cultural") }

RECURSIVE SeqsUpTo(_, _)
SeqsUpTo(S, n) ==
    IF n = 0 THEN { <<>> }
    ELSE LET shorter == SeqsUpTo(S, n - 1)
         IN  shorter \cup { Append(s, x) : s \in shorter, x \in S }

\* a catalog of n candidates with the ids 1..n and no title
Catalog(n) == [i \in 1..n |-> Cand(i, NoTitle, "ambiental")]

CandLists ==
    SeqsUpTo(CandAlphabet, MaxCands)
        \cup { Catalog(n) : n \in {MaxRecs, PromptCap, PromptCap + 1} }

----------------------------------------------------------------------------
(* Reply fragments                                                         *)
(*                                                                         *)
(*  "json"   marker, ':' and a brace object that json.loads accepts        *)
(*  "bad"    marker, ':' and a brace object that json.loads rejects; id is *)
(*           the first "actividad_id": <digits> inside it, if any          *)
(*  "nested" marker, ':' and a well-formed object that holds a nested      *)
(*           object after its id, reason and score: the regex match ends   *)
(*           at the first closing brace, and json.loads rejects that text  *)
(*  "bareid" an "actividad_id": <digits> outside any marker object         *)
(*  "text"   plain text                                                    *)
(*                                                                         *)
(* marker is "JSON" for GENERAR_RECOMENDACION_JSON and "plain" for         *)
(* GENERAR_RECOMENDACION.                                                  *)

IntId(n) == [t |-> "int", v |-> n]
StrId == [t |-> "str", v |-> 0]
NoId == [t |-> "none", v |-> 0]

Json(marker, id, razon, puntuacion) ==
    [k |-> "json", marker |-> marker, id |-> id, razon |-> razon,
     puntuacion |-> puntuacion, chars |-> <<>>]

Bad(marker, id) ==
    [k |-> "bad", marker |-> marker, id |-> id, razon |-> "missing",
     puntuacion |-> Missing, chars |-> <<>>]

Nested(marker, id, razon, puntuacion) ==
    [k |-> "nested", marker |-> marker, id |-> id, razon |-> razon,
     puntuacion |-> puntuacion, chars |-> <<>>]

BareId(n) ==
    [k |-> "bareid", marker |-> "none", id |-> IntId(n), razon |-> "missing",
     puntuacion |-> Missing, chars |-> <<>>]

Text(chars) ==
    [k |-> "text", marker |-> "none", id |-> NoId, razon |-> "missing",
     puntuacion |-> Missing, chars |-> chars]

Fragments ==
    { Json("JSON", IntId(1), "missing", Missing),
      Json("JSON", IntId(1), "given", Num(500)),
      Json("JSON", IntId(1), "given", PyNone),
      Json("JSON", IntId(2), "given", NaN),
      Json("JSON", IntId(3), "given", Num(90)),
      Json("plain", IntId(PromptCap + 1), "missing", Missing),
      Json("JSON", StrId, "given", Num(90)),
      Bad("plain", IntId(2)),
      Bad("JSON", NoId),
      Nested("JSON", IntId(2), "given", Num(90)),
      BareId(1),
      Text(YogaFlow) }

Replies == SeqsUpTo(Fragments, MaxFrags)

----------------------------------------------------------------------------
(* list.sort(key=puntuacion, reverse=True) as CPython runs it on a list    *)
(* shorter than 64: reverse, find the initial run, binary insertion of the *)
(* rest, reverse again.  A comparison that involves None raises TypeError; *)
(* a comparison that involves NaN is False.                                *)

\* key(a) < key(b): "T", "F", or "E" for TypeError
PyLt(a, b) ==
    IF a.t = "none" \/ b.t = "none" THEN "E"
    ELSE IF a.t = "nan" \/ b.t = "nan" THEN "F"
    ELSE IF a.v < b.v THEN "T" ELSE "F"

\* index of the last element of the run that starts at 1; 0 on TypeError
RECURSIVE count_run(_, _, _)
count_run(s, i, desc) ==
    IF i > Len(s) THEN i - 1
    ELSE LET c == PyLt(s[i].puntuacion, s[i - 1].puntuacion)
         IN  IF c = "E" THEN 0
             ELSE IF (c = "T") = desc THEN count_run(s, i + 1, desc)
             ELSE i - 1

\* where binarysort puts pivot among s[l..r-1]; 0 on TypeError
RECURSIVE BinaryPos(_, _, _, _)
BinaryPos(s, pivot, l, r) ==
    LET p == l + ((r - l) \div 2)
        c == PyLt(pivot.puntuacion, s[p].puntuacion)
        l2 == IF c = "T" THEN l ELSE p + 1
        r2 == IF c = "T" THEN p ELSE r
    IN  IF c = "E" THEN 0
        ELSE IF l2 < r2 THEN BinaryPos(s, pivot, l2, r2)
        ELSE l2

MoveTo(s, i, pos) ==
    [j \in 1..Len(s) |->
        IF j < pos THEN s[j]
        ELSE IF j = pos THEN s[i]
        ELSE IF j <= i THEN s[j - 1]
        ELSE s[j]]

RECURSIVE binarysort(_, _)
binarysort(s, start) ==
    IF start > Len(s) THEN [err |-> FALSE, list |-> s]
    ELSE LET pos == BinaryPos(s, s[start], 1, start)
         IN  IF pos = 0 THEN [err |-> TRUE, list |-> <<>>]
             ELSE binarysort(MoveTo(s, start, pos), start + 1)

ReversePrefix(s, n) ==
    [j \in 1..Len(s) |-> IF j <= n THEN s[n + 1 - j] ELSE s[j]]

list_sort_reverse(recs) ==
    IF Len(recs) <= 1 THEN [err |-> FALSE, list |-> recs]
    ELSE LET r0 == Reverse(recs)
             c == PyLt(r0[2].puntuacion, r0[1].puntuacion)
             n == count_run(r0, 3, c = "T")
             r1 == IF c = "T" THEN ReversePrefix(r0, n) ELSE r0
             bs == binarysort(r1, n + 1)
         IN  IF c = "E" \/ n = 0 \/ bs.err
             THEN [err |-> TRUE, list |-> <<>>]
             ELSE [err |-> FALSE, list |-> Reverse(bs.list)]

----------------------------------------------------------------------------
(* NLPModule._extract_recommendations *)

\* {act.get("id") for act in actividades_disponibles if act.get("id")}
actividad_ids_set(cands) ==
    { cands[i].id : i \in { j \in 1..Len(cands) : cands[j].id # 0 } }

\* next((act for act in actividades_disponibles if act.get("id") == id), None)
HasWithId(cands, id) == \E i \in 1..Len(cands) : cands[i].id = id

FirstWithId(cands, id) ==
    cands[CHOOSE i \in 1..Len(cands) :
              /\ cands[i].id = id
              /\ \A j \in 1..(i - 1) : cands[j].id # id]

Record(actividad_id, titulo, actividad, razon, puntuacion) ==
    [actividad_id |-> actividad_id,
     titulo |-> titulo,
     categoria |-> actividad.categoria,
     razon |-> razon,
     puntuacion |-> puntuacion,
     actividad |-> actividad]

\* RECOMMENDATION_JSON_REGEX.findall: either marker, then the object up to
\* the first closing brace
FindAllJson(text) ==
    SelectSeq(text, LAMBDA f : f.k \in {"json", "bad", "nested"})

\* RECOMMENDATION_JSON_MULTILINE_REGEX.findall: the _JSON marker only, then
\* the object up to the first closing brace
FindAllMultiline(text) ==
    SelectSeq(text,
              LAMBDA f : f.k \in {"json", "bad", "nested"} /\ f.marker = "JSON")

\* ACTIVITY_ID_REGEX.findall on the whole text
FindAllIds(text) ==
    SelectSeq(text, LAMBDA f : f.k = "bareid")

\* titulo in response_text
TextContains(text, titulo) ==
    \E i \in 1..Len(text) : IsSubstring(titulo, text[i].chars)

\* the body of the loop over found_ids
AcceptBareId(st, cands, f) ==
    IF /\ f.id.v \in actividad_ids_set(cands)
       /\ f.id.v \notin st.processed_ids
       /\ HasWithId(cands, f.id.v)
    THEN LET actividad == FirstWithId(cands, f.id.v)
         IN  [recommendations |->
                  Append(st.recommendations,
                         Record(f.id.v, actividad.titulo, actividad,
                                "default", Num(DefaultScore))),
              processed_ids |-> st.processed_ids \cup {f.id.v}]
    ELSE st

RECURSIVE BareIdScan(_, _, _, _)
BareIdScan(st, cands, found_ids, i) ==
    IF i > Len(found_ids) THEN st
    ELSE BareIdScan(AcceptBareId(st, cands, found_ids[i]), cands,
                    found_ids, i + 1)

\* TitleScan without the test that the reply mentions the title
RECURSIVE TitleScanAnyTitle(_, _, _, _)
TitleScanAnyTitle(st, cands, text, i) ==
    IF i > Len(cands) THEN st
    ELSE LET actividad == cands[i]
             titulo == Strip(actividad.titulo)
         IN  IF /\ titulo # <<>>
                /\ Len(titulo) > MinTitleLen
                /\ actividad.id # 0
                /\ actividad.id \notin st.processed_ids
             THEN [recommendations |->
                       Append(st.recommendations,
                              Record(actividad.id, titulo, actividad,
                                     "default_title", Num(TitleScore))),
                   processed_ids |-> st.processed_ids \cup {actividad.id}]
             ELSE TitleScanAnyTitle(st, cands, text, i + 1)

\* the loop over the candidates' titles; it stops at the first candidate
\* that is accepted
RECURSIVE TitleScan(_, _, _, _)
TitleScan(st, cands, text, i) ==
    IF i > Len(cands) THEN st
    ELSE LET actividad == cands[i]
             titulo == Strip(actividad.titulo)
         IN  IF /\ titulo # <<>>
                /\ Len(titulo) > MinTitleLen
                /\ TextContains(text, titulo)
                /\ actividad.id # 0
                /\ actividad.id \notin st.processed_ids
             THEN [recommendations |->
                       Append(st.recommendations,
                              Record(actividad.id, titulo, actividad,
                                     "default_title", Num(TitleScore))),
                   processed_ids |-> st.processed_ids \cup {actividad.id}]
             ELSE TitleScan(st, cands, text, i + 1)

\* if actividad_id: a JSON null, a missing key and 0 are falsy
Truthy(id) == id.t = "str" \/ (id.t = "int" /\ id.v # 0)

\* AcceptJson without the validation of the id against the candidates
AcceptJsonUnvalidated(st, cands, f) ==
    IF /\ Truthy(f.id)
       /\ f.id.t = "int"
       /\ f.id.v \notin st.processed_ids
    THEN LET actividad == IF HasWithId(cands, f.id.v)
                          THEN FirstWithId(cands, f.id.v)
                          ELSE Cand(f.id.v, NoTitle, "")
         IN  [recommendations |->
                  Append(st.recommendations,
                         Record(f.id.v, actividad.titulo, actividad,
                                IF f.razon = "missing" THEN "default"
                                ELSE f.razon,
                                IF f.puntuacion = Missing
                                THEN Num(DefaultScore)
                                ELSE f.puntuacion)),
              processed_ids |-> st.processed_ids \cup {f.id.v}]
    ELSE st

\* AcceptJson without the test on processed_ids
AcceptJsonNoDedup(st, cands, f) ==
    IF /\ Truthy(f.id)
       /\ f.id.t = "int"
       /\ f.id.v \in actividad_ids_set(cands)
       /\ HasWithId(cands, f.id.v)
    THEN LET actividad == FirstWithId(cands, f.id.v)
         IN  [recommendations |->
                  Append(st.recommendations,
                         Record(f.id.v, actividad.titulo, actividad,
                                IF f.razon = "missing" THEN "default"
                                ELSE f.razon,
                                IF f.puntuacion = Missing
                                THEN Num(DefaultScore)
                                ELSE f.puntuacion)),
              processed_ids |-> st.processed_ids \cup {f.id.v}]
    ELSE st

\* json.loads succeeded on the match
AcceptJson(st, cands, f) ==
    IF /\ Truthy(f.id)
       /\ f.id.t = "int"
       /\ f.id.v \in actividad_ids_set(cands)
       /\ f.id.v \notin st.processed_ids
       /\ HasWithId(cands, f.id.v)
    THEN LET actividad == FirstWithId(cands, f.id.v)
         IN  [recommendations |->
                  Append(st.recommendations,
                         Record(f.id.v, actividad.titulo, actividad,
                                IF f.razon = "missing" THEN "default"
                                ELSE f.razon,
                                IF f.puntuacion = Missing
                                THEN Num(DefaultScore)
                                ELSE f.puntuacion)),
              processed_ids |-> st.processed_ids \cup {f.id.v}]
    ELSE st

\* json.loads raised JSONDecodeError: ACTIVITY_ID_REGEX.search(match)
AcceptSalvaged(st, cands, f) ==
    IF /\ f.id.t = "int"
       /\ f.id.v \in actividad_ids_set(cands)
       /\ f.id.v \notin st.processed_ids
       /\ HasWithId(cands, f.id.v)
    THEN LET actividad == FirstWithId(cands, f.id.v)
         IN  [recommendations |->
                  Append(st.recommendations,
                         Record(f.id.v, actividad.titulo, actividad,
                                "default", Num(DefaultScore))),
              processed_ids |-> st.processed_ids \cup {f.id.v}]
    ELSE st

RECURSIVE ProcessMatches(_, _, _, _)
ProcessMatches(st, cands, matches, i) ==
    IF i > Len(matches) THEN st
    ELSE ProcessMatches(
             IF matches[i].k = "json"
             THEN AcceptJson(st, cands, matches[i])
             ELSE AcceptSalvaged(st, cands, matches[i]),
             cands, matches, i + 1)

extract_recommendations(text, cands) ==
    LET st0 == [recommendations |-> <<>>, processed_ids |-> {}]
        m1 == FindAllJson(text)
        matches == IF m1 = <<>> THEN FindAllMultiline(text) ELSE m1
        found_ids == FindAllIds(text)
        st1 == IF matches = <<>>
               THEN BareIdScan(st0, cands, found_ids, 1)
               ELSE st0
        st2 == IF matches = <<>> /\ found_ids = <<>>
                  /\ st1.recommendations = <<>>
               THEN TitleScan(st1, cands, text, 1)
               ELSE st1
        st3 == ProcessMatches(st2, cands, matches, 1)
        sorted == list_sort_reverse(st3.recommendations)
    IN  IF sorted.err
        THEN [raised |-> TRUE, recs |-> <<>>,
              accepted |-> st3.recommendations]
        ELSE [raised |-> FALSE, recs |-> sorted.list,
              accepted |-> st3.recommendations]

----------------------------------------------------------------------------
(* Model configurations and manager objects *)

Config(name, temperature, max_tokens) ==
    [name |-> name, temperature |-> temperature, max_tokens |-> max_tokens]

ModelConfigs ==
    { Config("m1", 70, 1024), Config("m2", 20, 256),
      Config("absent", 70, 1024) }

\* model_config.get("name", default)
ConfigName(cfg, default) == IF cfg.name = "absent" THEN default ELSE cfg.name

Mgr(online, client, name, cfg, available, process) ==
    [_online |-> online, _client |-> client, _model_name |-> name,
     _model_config |-> cfg, _available_model_name |-> available,
     _ollama_process |-> process]

Op(op, errors, net, was_online, result, polls) ==
    [op |-> op, errors |-> errors, raised |-> FALSE, net |-> net,
     was_online |-> was_online, result |-> result, polls |-> polls]

----------------------------------------------------------------------------
(* GroqManager *)

GroqEnvs ==
    [api_key : BOOLEAN, client : {"ok", "raise"}, probe : {"ok", "raise"}]

\* GroqInit with _online set after the verification, whatever it did
GroqInitOnlineAfterProbe(cfg, env) ==
    LET name == ConfigName(cfg, "llama3-8b-8192")
    IN  IF ~env.api_key
        THEN Mgr(FALSE, "None", name, cfg, "n/a", "n/a")
        ELSE IF env.client = "raise"
        THEN Mgr(FALSE, "None", name, cfg, "n/a", "n/a")
        ELSE Mgr(TRUE, "AsyncGroq", name, cfg, "n/a", "n/a")

\* GroqManager.__init__
GroqInit(cfg, env) ==
    LET name == ConfigName(cfg, "llama3-8b-8192")
    IN  IF ~env.api_key
        THEN Mgr(FALSE, "None", name, cfg, "n/a", "n/a")
        ELSE IF env.client = "raise"
        THEN Mgr(FALSE, "None", name, cfg, "n/a", "n/a")
        ELSE Mgr(env.probe = "ok", "AsyncGroq", name, cfg, "n/a", "n/a")

\* the calls of __init__ that raised
GroqInitErrors(env) ==
    IF ~env.api_key THEN {}
    ELSE IF env.client = "raise" THEN {"client"}
    ELSE IF env.probe = "raise" THEN {"probe"}
    ELSE {}

\* GroqGenerate that tests the client only, not the online flag
GroqGenerateClientOnly(m, api) ==
    IF m._client = "None"
    THEN [result |-> "None", net |-> FALSE]
    ELSE [result |-> IF api = "raise" THEN "None" ELSE api, net |-> TRUE]

\* the body of the coroutine generate_content, once awaited; api is what
\* chat.completions.create does
GroqGenerate(m, api) ==
    IF ~m._online \/ m._client = "None"
    THEN [result |-> "None", net |-> FALSE]
    ELSE [result |-> IF api = "raise" THEN "None" ELSE api, net |-> TRUE]

\* GroqManager.reload
GroqReloaded(m, cfg) ==
    [m EXCEPT !._model_config = cfg,
              !._model_name = ConfigName(cfg, "llama3-8b-8192")]

----------------------------------------------------------------------------
(* GeminiManager *)

GeminiTags ==
    [n \in { "models/gemini-flash-latest", "models/gemini-2.5-flash",
             "models/gemini-2.5-flash-preview", "models/gemini-pro-latest",
             "models/gemini-2.5-pro", "models/gemini-exp-1206",
             "models/gemini-embedding-001", "models/text-bison-001" } |->
        CASE n = "models/gemini-flash-latest" -> {"gemini", "flash", "latest"}
          [] n = "models/gemini-2.5-flash" -> {"gemini", "flash"}
          [] n = "models/gemini-2.5-flash-preview" ->
                 {"gemini", "flash", "preview"}
          [] n = "models/gemini-pro-latest" -> {"gemini", "pro", "latest"}
          [] n = "models/gemini-2.5-pro" -> {"gemini", "pro"}
          [] n = "models/gemini-exp-1206" -> {"gemini"}
          [] n = "models/gemini-embedding-001" -> {"gemini", "excluded"}
          [] n = "models/text-bison-001" -> {}]

GeminiNames == DOMAIN GeminiTags

Has(n, tag) == tag \in GeminiTags[n]

\* the first element of s, or "None": the loop that breaks at the first hit
FirstOf(s) == IF s = <<>> THEN "None" ELSE Head(s)

\* SelectModel that tries the stable flash tier before flash + latest
SelectModelStableFirst(model_names) ==
    LET valid_models ==
            SelectSeq(model_names,
                      LAMBDA n : Has(n, "gemini") /\ ~Has(n, "excluded"))
        p1 == FirstOf(SelectSeq(valid_models,
                  LAMBDA n : Has(n, "flash") /\ Has(n, "latest")))
        p2 == FirstOf(SelectSeq(valid_models,
                  LAMBDA n : /\ Has(n, "flash")
                             /\ ~Has(n, "preview")
                             /\ ~Has(n, "latest")))
        p3 == FirstOf(SelectSeq(valid_models,
                  LAMBDA n : Has(n, "pro") /\ Has(n, "latest")))
        p4 == FirstOf(SelectSeq(valid_models, LAMBDA n : Has(n, "flash")))
        p5 == FirstOf(SelectSeq(valid_models, LAMBDA n : Has(n, "pro")))
    IN  IF p2 # "None" THEN p2
        ELSE IF p1 # "None" THEN p1
        ELSE IF p3 # "None" THEN p3
        ELSE IF p4 # "None" THEN p4
        ELSE IF p5 # "None" THEN p5
        ELSE IF valid_models # <<>> THEN valid_models[1]
        ELSE "None"

\* the tiers of GeminiManager.__init__
SelectModel(model_names) ==
    LET valid_models ==
            SelectSeq(model_names,
                      LAMBDA n : Has(n, "gemini") /\ ~Has(n, "excluded"))
        p1 == FirstOf(SelectSeq(valid_models,
                  LAMBDA n : Has(n, "flash") /\ Has(n, "latest")))
        p2 == FirstOf(SelectSeq(valid_models,
                  LAMBDA n : /\ Has(n, "flash")
                             /\ ~Has(n, "preview")
                             /\ ~Has(n, "latest")))
        p3 == FirstOf(SelectSeq(valid_models,
                  LAMBDA n : Has(n, "pro") /\ Has(n, "latest")))
        p4 == FirstOf(SelectSeq(valid_models, LAMBDA n : Has(n, "flash")))
        p5 == FirstOf(SelectSeq(valid_models, LAMBDA n : Has(n, "pro")))
    IN  IF p1 # "None" THEN p1
        ELSE IF p2 # "None" THEN p2
        ELSE IF p3 # "None" THEN p3
        ELSE IF p4 # "None" THEN p4
        ELSE IF p5 # "None" THEN p5
        ELSE IF valid_models # <<>> THEN valid_models[1]
        ELSE "None"

Listings ==
    { [t |-> "raise", names |-> <<>>] }
        \cup { [t |-> "ok", names |-> l] : l \in SeqsUpTo(GeminiNames, MaxModels) }

GeminiEnvs ==
    [api_key : BOOLEAN, configure : {"ok", "raise"}, listing : Listings]

\* GeminiManager.__init__
GeminiInit(cfg, env) ==
    LET name == ConfigName(cfg, "gemini-pro")
        selected_model == SelectModel(env.listing.names)
    IN  IF ~env.api_key
        THEN Mgr(FALSE, "n/a", name, cfg, "None", "n/a")
        ELSE IF env.configure = "raise"
        THEN Mgr(FALSE, "n/a", name, cfg, "None", "n/a")
        ELSE IF env.listing.t = "raise"
        THEN Mgr(TRUE, "n/a", name, cfg, "None", "n/a")
        ELSE IF selected_model # "None"
        THEN Mgr(TRUE, "n/a", selected_model, cfg, selected_model, "n/a")
        ELSE Mgr(TRUE, "n/a", name, cfg, "None", "n/a")

GeminiInitErrors(env) ==
    IF ~env.api_key THEN {}
    ELSE IF env.configure = "raise" THEN {"configure"}
    ELSE IF env.listing.t = "raise" THEN {"list"}
    ELSE {}

\* GeminiManager.get_model; ctor is what genai.GenerativeModel(...) does
GeminiGetModel(m, ctor) ==
    IF ~m._online THEN [result |-> "None", net |-> FALSE]
    ELSE [result |-> IF ctor = "raise" THEN "None" ELSE "model",
          net |-> FALSE]

\* GeminiReloaded that marks the gateway online
GeminiReloadedGoesOnline(m, cfg) ==
    [m EXCEPT !._online = TRUE,
              !._model_config = cfg,
              !._model_name = ConfigName(cfg, "gemini-pro")]

\* GeminiManager.reload
GeminiReloaded(m, cfg) ==
    [m EXCEPT !._model_config = cfg,
              !._model_name = ConfigName(cfg, "gemini-pro")]

----------------------------------------------------------------------------
(* OllamaManager *)

\* what the daemon's registry lists, or that client.list() raises
CheckOutcomes ==
    { [t |-> "raise", names |-> {}] }
        \cup { [t |-> "ok", names |-> ns] : ns \in SUBSET {"m1", "m2"} }
        \cup { [t |-> "ok", names |-> {"m1:latest"}] }

\* probe0: the first client.list(); spawn: subprocess.Popen; the polls fail
\* with ResponseError `fails` times and then do what `then` says
OllamaEnvs ==
    [probe0 : {"ok", "ResponseError", "Error"},
     spawn : {"ok", "FileNotFound", "Error"},
     fails : 0..retries,
     then : {"ok", "Error"},
     check : CheckOutcomes]

PollOutcome(env, attempt) ==
    IF attempt <= env.fails THEN "ResponseError" ELSE env.then

\* PollLoop with one attempt more than retries
RECURSIVE PollLoopOneMore(_, _)
PollLoopOneMore(env, attempt) ==
    IF attempt > retries + 1
    THEN [online |-> FALSE, polls |-> retries + 1, errors |-> {"poll"}]
    ELSE IF PollOutcome(env, attempt) = "ok"
    THEN [online |-> TRUE, polls |-> attempt,
          errors |-> IF attempt > 1 THEN {"poll"} ELSE {}]
    ELSE IF PollOutcome(env, attempt) = "Error"
    THEN [online |-> FALSE, polls |-> attempt, errors |-> {"poll"}]
    ELSE PollLoopOneMore(env, attempt + 1)

\* for attempt in range(retries); attempt counts from 1 here
RECURSIVE PollLoop(_, _)
PollLoop(env, attempt) ==
    IF attempt > retries
    THEN [online |-> FALSE, polls |-> retries, errors |-> {"poll"}]
    ELSE IF PollOutcome(env, attempt) = "ok"
    THEN [online |-> TRUE, polls |-> attempt,
          errors |-> IF attempt > 1 THEN {"poll"} ELSE {}]
    ELSE IF PollOutcome(env, attempt) = "Error"
    THEN [online |-> FALSE, polls |-> attempt, errors |-> {"poll"}]
    ELSE PollLoop(env, attempt + 1)

\* OllamaManager._start_ollama_server
start_ollama_server(env) ==
    IF env.probe0 = "ok"
    THEN [online |-> TRUE, process |-> "None", polls |-> 0, errors |-> {}]
    ELSE IF env.spawn # "ok"
    THEN [online |-> FALSE, process |-> "None", polls |-> 0,
          errors |-> {"probe0", "spawn"}]
    ELSE LET loop == PollLoop(env, 1)
         IN  [online |-> loop.online, process |-> "running",
              polls |-> loop.polls,
              errors |-> {"probe0"} \cup loop.errors]

\* the registry entry "m1:latest" is a tag of the model "m1"
BaseName(n) == IF n = "m1:latest" THEN "m1" ELSE n

\* check_connection that accepts any tag of the configured model
check_connection_any_tag(model_name, check) ==
    IF check.t = "raise" THEN FALSE
    ELSE IF model_name = "None" THEN FALSE
    ELSE \E n \in check.names : BaseName(n) = model_name

\* OllamaManager._check_connection
check_connection(model_name, check) ==
    IF check.t = "raise" THEN FALSE
    ELSE IF model_name = "None" \/ model_name \notin check.names THEN FALSE
    ELSE TRUE

\* OllamaInit that keeps a flag the bootstrap left unset
OllamaInitKeepsBootFlag(cfg, env) ==
    LET name == ConfigName(cfg, "None")
        started == start_ollama_server(env)
    IN  Mgr(started.online /\ check_connection(name, env.check), "n/a", name,
            cfg, "n/a", started.process)

\* OllamaManager.__init__
OllamaInit(cfg, env) ==
    LET name == ConfigName(cfg, "None")
        started == start_ollama_server(env)
    IN  Mgr(check_connection(name, env.check), "n/a", name, cfg, "n/a",
            started.process)

OllamaInitErrors(env) ==
    start_ollama_server(env).errors
        \cup (IF env.check.t = "raise" THEN {"check"} ELSE {})

\* close() that leaves the handle in place
close_keeps_handle(m, p, term) ==
    IF m._ollama_process # "None" /\ p.state = "running"
    THEN [mgr |-> m,
          proc |-> [p EXCEPT !.signals = Append(@, "terminate"),
                             !.state = IF term = "exits" THEN "exited"
                                       ELSE "running"],
          errors |-> IF term = "exits" THEN {} ELSE {"wait"}]
    ELSE [mgr |-> m, proc |-> p, errors |-> {}]

\* OllamaManager.close; p is the spawned process and term is what it does
\* on terminate(): it exits within the 5 s of wait(timeout=5), or it does
\* not and wait raises TimeoutExpired, which the except clause catches.
\* After a wait that returned, poll() is not None: kill() is not reached.
close(m, p, term) ==
    IF m._ollama_process # "None" /\ p.state = "running"
    THEN [mgr |-> [m EXCEPT !._ollama_process = "None"],
          proc |-> [p EXCEPT !.signals = Append(@, "terminate"),
                             !.state = IF term = "exits" THEN "exited"
                                       ELSE "running"],
          errors |-> IF term = "exits" THEN {} ELSE {"wait"}]
    ELSE [mgr |-> m, proc |-> p, errors |-> {}]

\* OllamaManager.reload
OllamaReloaded(m, cfg, check) ==
    [m EXCEPT !._model_config = cfg,
              !._model_name = ConfigName(cfg, "None"),
              !._online = check_connection(ConfigName(cfg, "None"), check)]

----------------------------------------------------------------------------
(* prompt_creator.py and NLPModule.generate_recommendations *)

\* actividades_disponibles[:30], as both prompts serialize it
actividades_limitadas(cands) ==
    SubSeq(cands, 1, IF Len(cands) < PromptCap THEN Len(cands) ELSE PromptCap)

\* create_system_prompt: template.format(...) raises when the loaded
\* template has a replacement field that is not one of the keywords given.
\* serialized is what json.dumps is given; shown is what the prompt text
\* holds of it: all of it where the template has the field
\* {actividades_disponibles}, nothing with the built-in fallback template,
\* which has no field.
create_system_prompt(template, cands) ==
    IF template = "stray_field"
    THEN [raised |-> TRUE, serialized |-> actividades_limitadas(cands),
          shown |-> <<>>]
    ELSE [raised |-> FALSE, serialized |-> actividades_limitadas(cands),
          shown |-> IF template = "fallback" THEN <<>>
                    ELSE actividades_limitadas(cands)]

\* str.lower() on the letters that the modelled texts hold
LowerChar(c) == IF c = "A" THEN "a" ELSE c

Lower(s) == [i \in 1..Len(s) |-> LowerChar(s[i])]

\* str.split(','): cut at every comma, empty pieces are kept
RECURSIVE SplitComma(_, _)
SplitComma(s, cur) ==
    IF s = <<>> THEN <<cur>>
    ELSE IF Head(s) = ","
         THEN <<cur>> \o SplitComma(Tail(s), <<>>)
         ELSE SplitComma(Tail(s), Append(cur, Head(s)))

\* str.split(): cut at runs of whitespace, no empty piece is kept
RECURSIVE SplitWhitespace(_, _)
SplitWhitespace(s, cur) ==
    IF s = <<>> THEN (IF cur = <<>> THEN <<>> ELSE <<cur>>)
    ELSE IF Head(s) = " "
         THEN (IF cur = <<>> THEN <<>> ELSE <<cur>>)
                  \o SplitWhitespace(Tail(s), <<>>)
         ELSE SplitWhitespace(Tail(s), Append(cur, Head(s)))

\* keywords.extend(x.lower().split(',')); keywords.extend(x.lower().split())
\* for a text x that is neither None nor empty
KeywordsOf(x) ==
    IF x.t = "None" \/ x.text = <<>> THEN <<>>
    ELSE SplitComma(Lower(x.text), <<>>)
             \o SplitWhitespace(Lower(x.text), <<>>)

\* [k.strip() for k in keywords if len(k.strip()) > 2], then keywords[:20];
\* the empty list is shown as "ninguna"
Keywords(hobbies, intereses) ==
    LET all == KeywordsOf(hobbies) \o KeywordsOf(intereses)
        kept == SelectSeq(all, LAMBDA k : Len(Strip(k)) > MinKeywordLen)
        keywords == [i \in 1..Len(kept) |-> Strip(kept[i])]
    IN  SubSeq(keywords, 1,
               IF Len(keywords) < KeywordCap THEN Len(keywords)
               ELSE KeywordCap)

\* create_recommendation_prompt without the slice
create_recommendation_prompt_uncapped(cands, hobbies, intereses) ==
    [raised |-> FALSE, serialized |-> cands, shown |-> cands,
     keywords |-> Keywords(hobbies, intereses)]

\* create_recommendation_prompt: the keyword list and
\* json.dumps(actividades_disponibles[:30]) inside the f-string
create_recommendation_prompt(cands, hobbies, intereses) ==
    LET n == IF Len(cands) < UserPromptCap THEN Len(cands)
             ELSE UserPromptCap
    IN  [raised |-> FALSE, serialized |-> SubSeq(cands, 1, n),
         shown |-> SubSeq(cands, 1, n),
         keywords |-> Keywords(hobbies, intereses)]

\* self._groq_manager.generate_content(full_prompt), not awaited: the value
\* is the coroutine object and the body of the coroutine never runs
generate_content_call(m, backend) == [t |-> "coroutine", text |-> <<>>]

\* "not x" on the value of generate_content_call
Falsy(x) == x.t = "None" \/ (x.t = "str" /\ x.text = <<>>)

Result(error, recs, text, raised, prompt_built, coroutine, net) ==
    [error |-> error, recomendaciones |-> recs, response_text |-> text,
     raised |-> raised, prompt_built |-> prompt_built,
     coroutine |-> coroutine, net |-> net]

NoText == [t |-> "None", text |-> <<>>]

\* generate_recommendations with the two precondition tests swapped
generate_recommendations_swapped(m, cands, template, backend) ==
    IF cands = <<>>
    THEN Result("no_candidates", <<>>, NoText, FALSE, FALSE, FALSE, FALSE)
    ELSE IF ~m._online
    THEN Result("offline", <<>>, NoText, FALSE, FALSE, FALSE, FALSE)
    ELSE Result("exception", <<>>, NoText, FALSE, TRUE, TRUE, FALSE)

\* backend is what the Groq API would answer to the prompt
generate_recommendations(m, cands, template, backend) ==
    IF ~m._online
    THEN Result("offline", <<>>, NoText, FALSE, FALSE, FALSE, FALSE)
    ELSE IF cands = <<>>
    THEN Result("no_candidates", <<>>, NoText, FALSE, FALSE, FALSE, FALSE)
    ELSE IF create_system_prompt(template, cands).raised
    THEN Result("none", <<>>, NoText, TRUE, FALSE, FALSE, FALSE)
    ELSE LET full_response_content == generate_content_call(m, backend)
             extracted ==
                 extract_recommendations(full_response_content.text, cands)
         IN  IF Falsy(full_response_content)
             THEN Result("empty_reply", <<>>, NoText, FALSE, TRUE, TRUE,
                         FALSE)
             ELSE IF full_response_content.t # "str"
             THEN \* full_response_content[:500] raises TypeError
                  Result("exception", <<>>, NoText, FALSE, TRUE, TRUE, FALSE)
             ELSE IF extracted.raised
             THEN Result("exception", <<>>, NoText, FALSE, TRUE, TRUE, FALSE)
             ELSE Result("none", extracted.recs, full_response_content,
                         FALSE, TRUE, TRUE, FALSE)

----------------------------------------------------------------------------
(* The gateway object and the orchestrator on top of it *)

Kinds == {"groq", "gemini", "ollama"}

NoCall ==
    [called |-> FALSE, was_online |-> FALSE, cands |-> <<>>,
     template |-> "ok", backend |-> NoText,
     out |-> Result("none", <<>>, NoText, FALSE, FALSE, FALSE, FALSE)]

OrchCands ==
    { <<>>, <<Cand(1, Yoga, "deportiva")>>,
      <<Cand(1, Yoga, "deportiva"), Cand(2, YogaFlow, "deportiva")>> }

Str(text) == [t |-> "str", text |-> text]

\* "hang": the API does not answer
BackendAnswers ==
    { [t |-> "raise", text |-> <<>>],
      [t |-> "hang", text |-> <<>>],
      Str(<<>>),
      Str(<<Json("JSON", IntId(1), "given", Num(90))>>),
      Str(<<Text(YogaFlow)>>) }

Templates == {"ok", "fallback", "stray_field"}

\* the variables of the other specifications, at rest
NoWorld == [t |-> "none"]

NoProc ==
    [state |-> "none", signals |-> <<>>, closes |-> 0, finalized |-> FALSE]

NoPrompts == [built |-> FALSE]

NoGen == [pc |-> "idle"]

NoRl == [pc |-> "idle"]

LocalsIdle ==
    /\ world = NoWorld
    /\ proc = NoProc
    /\ prompts = NoPrompts
    /\ gen = NoGen
    /\ rl = NoRl

Init ==
    /\ actividades_disponibles = <<>>
    /\ response_text = <<>>
    /\ xpc = "idle"
    /\ xout = [raised |-> FALSE, recs |-> <<>>, accepted |-> <<>>]
    /\ kind \in Kinds
    /\ \E cfg \in ModelConfigs :
          \/ /\ kind = "groq"
             /\ \E env \in GroqEnvs :
                   /\ mgr = GroqInit(cfg, env)
                   /\ hist = Op("init", GroqInitErrors(env),
                                env.api_key /\ env.client = "ok", FALSE,
                                "None", 0)
          \/ /\ kind = "gemini"
             /\ \E env \in GeminiEnvs :
                   /\ mgr = GeminiInit(cfg, env)
                   /\ hist = Op("init", GeminiInitErrors(env),
                                env.api_key /\ env.configure = "ok", FALSE,
                                "None", 0)
          \/ /\ kind = "ollama"
             /\ \E env \in OllamaEnvs :
                   /\ mgr = OllamaInit(cfg, env)
                   /\ hist = Op("init", OllamaInitErrors(env), TRUE, FALSE,
                                "None", start_ollama_server(env).polls)
    /\ reloads = 0
    /\ res = NoCall
    /\ LocalsIdle

GroqReload ==
    /\ kind = "groq"
    /\ reloads < MaxReloads
    /\ \E cfg \in ModelConfigs :
          /\ mgr' = GroqReloaded(mgr, cfg)
          /\ hist' = Op("reload", {}, FALSE, mgr._online, "None", 0)
    /\ reloads' = reloads + 1
    /\ UNCHANGED <<xvars, kind, res, lvars>>

GeminiReload ==
    /\ kind = "gemini"
    /\ reloads < MaxReloads
    /\ \E cfg \in ModelConfigs :
          /\ mgr' = GeminiReloaded(mgr, cfg)
          /\ hist' = Op("reload", {}, FALSE, mgr._online, "None", 0)
    /\ reloads' = reloads + 1
    /\ UNCHANGED <<xvars, kind, res, lvars>>

OllamaReload ==
    /\ kind = "ollama"
    /\ reloads < MaxReloads
    /\ \E cfg \in ModelConfigs, check \in CheckOutcomes :
          /\ mgr' = OllamaReloaded(mgr, cfg, check)
          /\ hist' = Op("reload",
                        IF check.t = "raise" THEN {"check"} ELSE {},
                        TRUE, mgr._online, "None", 0)
    /\ reloads' = reloads + 1
    /\ UNCHANGED <<xvars, kind, res, lvars>>

\* await manager.generate_content(prompt)
GroqGenerateContent ==
    /\ kind = "groq"
    /\ \E api \in {"text", "empty", "raise"} :
          LET g == GroqGenerate(mgr, api)
          IN  hist' = Op("generate", IF g.net /\ api = "raise"
                                     THEN {"api"} ELSE {},
                         g.net, mgr._online, g.result, 0)
    /\ UNCHANGED <<xvars, kind, mgr, reloads, res, lvars>>

\* manager.get_model()
GeminiGetModelCall ==
    /\ kind = "gemini"
    /\ \E ctor \in {"ok", "raise"} :
          LET g == GeminiGetModel(mgr, ctor)
          IN  hist' = Op("generate", {}, g.net, mgr._online, g.result, 0)
    /\ UNCHANGED <<xvars, kind, mgr, reloads, res, lvars>>

\* NLPModule holds a GroqManager
GenerateRecommendations ==
    /\ kind = "groq"
    /\ \E cands \in OrchCands, template \in Templates,
          backend \in BackendAnswers :
          res' = [called |-> TRUE, was_online |-> mgr._online,
                  cands |-> cands, template |-> template,
                  backend |-> backend,
                  out |-> generate_recommendations(mgr, cands, template,
                                                   backend)]
    /\ UNCHANGED <<xvars, kind, mgr, hist, reloads, lvars>>

Next ==
    \/ GroqReload
    \/ GeminiReload
    \/ OllamaReload
    \/ GroqGenerateContent
    \/ GeminiGetModelCall
    \/ GenerateRecommendations

Spec == Init /\ [][Next]_vars

----------------------------------------------------------------------------
(* The extractor called on a candidate list and a reply text *)

NotCalled == [raised |-> FALSE, recs |-> <<>>, accepted |-> <<>>]

InitExtract ==
    /\ actividades_disponibles \in CandLists
    /\ response_text \in Replies
    /\ xpc = "ready"
    /\ xout = NotCalled
    /\ kind = "none"
    /\ mgr = Mgr(FALSE, "n/a", "None", Config("absent", 0, 0), "n/a", "n/a")
    /\ hist = Op("none", {}, FALSE, FALSE, "None", 0)
    /\ reloads = 0
    /\ res = NoCall
    /\ LocalsIdle

ExtractCall ==
    /\ xpc = "ready"
    /\ xout' = extract_recommendations(response_text, actividades_disponibles)
    /\ xpc' = "done"
    /\ UNCHANGED <<actividades_disponibles, response_text, gvars>>

NextExtract == ExtractCall

SpecExtract == InitExtract /\ [][NextExtract]_vars

----------------------------------------------------------------------------
(* Properties of the extractor, under SpecExtract *)

CandidateIds(cands) == { cands[i].id : i \in 1..Len(cands) }

NamedIds(text) ==
    { text[i].id.v : i \in { j \in 1..Len(text) : text[j].id.t = "int" } }

\* C1: every record that _extract_recommendations returns has the id of
\* some candidate of the list it was given; an id of the reply that no
\* candidate has never produces a record.
C1_RecordIdsAreCandidateIds ==
    xpc = "done" =>
        \A i \in 1..Len(xout.recs) :
            xout.recs[i].actividad_id
                \in CandidateIds(actividades_disponibles)

\* the reply names an id that no candidate has, and a record was returned
C1_Witness ==
    /\ xpc = "done"
    /\ xout.recs # <<>>
    /\ NamedIds(response_text) \ CandidateIds(actividades_disponibles) # {}

\* the candidate ids that two or more well-formed marker objects name
NamedTwice(text, cands) ==
    { id \in actividad_ids_set(cands) :
        \E i, j \in 1..Len(text) :
            /\ i < j
            /\ text[i].k = "json" /\ text[i].id = IntId(id)
            /\ text[j].k = "json" /\ text[j].id = IntId(id) }

AcceptedAt(r) ==
    CHOOSE i \in 1..Len(xout.accepted) : xout.accepted[i] = r

\* C3: the returned list is in descending order of puntuacion, and two
\* records of equal puntuacion are in the order of their acceptance.
C3_SortedByScoreDescending ==
    (xpc = "done" /\ ~xout.raised) =>
        \A i, j \in 1..Len(xout.recs) :
            i < j =>
                /\ PyLt(xout.recs[i].puntuacion, xout.recs[j].puntuacion)
                       # "T"
                /\ xout.recs[i].puntuacion = xout.recs[j].puntuacion =>
                       AcceptedAt(xout.recs[i]) < AcceptedAt(xout.recs[j])

\* C7: every returned record has a puntuacion in [0, 1].
C7_ScoreInUnitInterval ==
    xpc = "done" =>
        \A i \in 1..Len(xout.recs) :
            /\ xout.recs[i].puntuacion.t = "num"
            /\ xout.recs[i].puntuacion.v >= 0
            /\ xout.recs[i].puntuacion.v <= 100

\* C8: the extractor accepts only the ids of the candidates that the
\* prompts serialize, the first 30 of the list.
C8_ValidatedAgainstShownCandidates ==
    xpc = "done" =>
        \A i \in 1..Len(xout.recs) :
            xout.recs[i].actividad_id
                \in CandidateIds(actividades_limitadas(
                                     actividades_disponibles))

----------------------------------------------------------------------------
(* Properties of the orchestrator and of the managers, under Spec *)

\* C4: gateway online, candidates given and a non-empty text from the
\* backend: the result has no error, its records are what the extractor
\* makes of that text and those candidates, and it carries the text.
C4_OnlineCallReturnsExtractedRecords ==
    (/\ res.called
     /\ res.was_online
     /\ res.cands # <<>>
     /\ res.backend.t = "str"
     /\ res.backend.text # <<>>) =>
        /\ ~res.out.raised
        /\ res.out.error = "none"
        /\ res.out.recomendaciones =
               extract_recommendations(res.backend.text, res.cands).recs
        /\ res.out.response_text = res.backend

\* C5: generate_recommendations never raises; a failure is returned as a
\* result with an error and no records.
C5_NeverRaises ==
    res.called =>
        /\ ~res.out.raised
        /\ res.out.error # "none" => res.out.recomendaciones = <<>>

NothingStarted(out) ==
    /\ out.recomendaciones = <<>>
    /\ ~out.raised
    /\ ~out.prompt_built
    /\ ~out.coroutine
    /\ ~out.net

\* C6: offline gateway: the offline error, whatever the candidates are;
\* online gateway and no candidates: the no-candidates error; in both cases
\* no prompt is built and the backend is not called.
C6_PreconditionsInOrder ==
    res.called =>
        /\ ~res.was_online =>
               res.out.error = "offline" /\ NothingStarted(res.out)
        /\ (res.was_online /\ res.cands = <<>>) =>
               res.out.error = "no_candidates" /\ NothingStarted(res.out)

\* an offline gateway called with an empty candidate list
C6_Witness ==
    /\ res.called
    /\ ~res.was_online
    /\ res.cands = <<>>
    /\ res.out.error = "offline"

\* C9: generate on a manager that is not online returns the failure value
\* and makes no network call, after init and any number of reloads.
C9_OfflineGenerateFailsFast ==
    (hist.op = "generate" /\ ~hist.was_online) =>
        hist.result = "None" /\ ~hist.net

\* generate on an offline manager that holds a client, after a reload
C9_Witness ==
    /\ hist.op = "generate"
    /\ ~hist.was_online
    /\ reloads > 0
    /\ mgr._client = "AsyncGroq"
    /\ hist.result = "None"

ProbeCalls == {"probe", "list", "probe0", "poll", "check"}

\* C10 as stated: an error of a probe or network call during init or reload
\* does not propagate and leaves the manager not online.
C10_ProbeErrorLeavesOffline ==
    (hist.op \in {"init", "reload"} /\ hist.errors \cap ProbeCalls # {}) =>
        ~hist.raised /\ ~mgr._online

\* C10: an error during init or reload does not propagate.  It leaves a
\* Groq manager not online; on Gemini a failed configure leaves it not
\* online and a failed model listing leaves it online with the configured
\* name; on Ollama a failed final connection check leaves it not online.
C10_ErrorsAreCaught ==
    (hist.op \in {"init", "reload"} /\ hist.errors # {}) =>
        /\ ~hist.raised
        /\ kind = "groq" => ~mgr._online
        /\ (kind = "gemini" /\ "configure" \in hist.errors) => ~mgr._online
        /\ (kind = "gemini" /\ "list" \in hist.errors) =>
               /\ mgr._online
               /\ mgr._model_name =
                      ConfigName(mgr._model_config, "gemini-pro")
        /\ (kind = "ollama" /\ "check" \in hist.errors) => ~mgr._online

\* the model listing of Gemini failed during init
C10_Witness ==
    /\ hist.op = "init"
    /\ kind = "gemini"
    /\ "list" \in hist.errors
    /\ mgr._online

----------------------------------------------------------------------------
(* GeminiManager constructed on a model listing: the credential is set and *)
(* genai.configure succeeds, list_models returns the names or raises       *)

ExtractorIdle ==
    /\ actividades_disponibles = <<>>
    /\ response_text = <<>>
    /\ xpc = "idle"
    /\ xout = NotCalled

LongListings ==
    { [t |-> "raise", names |-> <<>>] }
        \cup { [t |-> "ok", names |-> l] :
                   l \in SeqsUpTo(GeminiNames, MaxListing) }

\* the object before __init__ has run
Unconstructed(cfg) == Mgr(FALSE, "n/a", "None", cfg, "None", "n/a")

InitSelect ==
    /\ ExtractorIdle
    /\ kind = "gemini"
    /\ world \in { [t |-> "listing", cfg |-> cfg, listing |-> l] :
                      cfg \in ModelConfigs, l \in LongListings }
    /\ mgr = Unconstructed(world.cfg)
    /\ hist = Op("none", {}, FALSE, FALSE, "None", 0)
    /\ reloads = 0
    /\ res = NoCall
    /\ proc = NoProc
    /\ prompts = NoPrompts
    /\ gen = NoGen
    /\ rl = NoRl

\* GeminiManager(model_config)
GeminiConstruct ==
    /\ hist.op = "none"
    /\ LET e == [api_key |-> TRUE, configure |-> "ok",
                 listing |-> world.listing]
       IN  /\ mgr' = GeminiInit(world.cfg, e)
           /\ hist' = Op("init", GeminiInitErrors(e), TRUE, FALSE, "None", 0)
    /\ UNCHANGED <<xvars, kind, reloads, res, lvars>>

NextSelect == GeminiConstruct

SpecSelect == InitSelect /\ [][NextSelect]_vars

----------------------------------------------------------------------------
(* Properties of the model selection, under SpecSelect *)

\* the tier of the selection policy that an identifier stands in
Tier(n) ==
    IF Has(n, "flash") /\ Has(n, "latest") THEN 1
    ELSE IF Has(n, "flash") /\ ~Has(n, "preview") THEN 2
    ELSE IF Has(n, "pro") /\ Has(n, "latest") THEN 3
    ELSE IF Has(n, "flash") THEN 4
    ELSE IF Has(n, "pro") THEN 5
    ELSE 6

\* the first identifier of the best tier that survivors reaches, or the
\* configured name when there is no survivor
Adopted(survivors, configured) ==
    IF survivors = <<>> THEN configured
    ELSE survivors[CHOOSE i \in 1..Len(survivors) :
                       \A j \in 1..Len(survivors) :
                           \/ Tier(survivors[i]) < Tier(survivors[j])
                           \/ /\ Tier(survivors[i]) = Tier(survivors[j])
                              /\ i <= j]

NotDenylisted(names) ==
    SelectSeq(names, LAMBDA n : ~Has(n, "excluded"))

GeminiFamily(names) ==
    SelectSeq(names, LAMBDA n : Has(n, "gemini"))

Listed ==
    /\ hist.op = "init"
    /\ world.listing.t = "ok"

\* C11 as stated: the constructor adopts, from the listed identifiers that
\* are not denylisted, the first one of the best tier; when none survives
\* it keeps the configured name; the gateway is online.
C11_AdoptsDenylistPolicy ==
    Listed =>
        /\ mgr._online
        /\ mgr._model_name =
               Adopted(NotDenylisted(world.listing.names),
                       ConfigName(world.cfg, "gemini-pro"))

\* C11: the constructor adopts, from the listed identifiers that begin with
\* models/gemini- and are not denylisted, the first one of the best tier
\* among flash + latest, stable flash, pro + latest, any flash, any pro,
\* first remaining; when none survives it keeps the configured name; the
\* gateway is online in both cases.
C11_AdoptsGeminiFamilyPolicy ==
    Listed =>
        /\ mgr._online
        /\ mgr._model_name =
               Adopted(NotDenylisted(GeminiFamily(world.listing.names)),
                       ConfigName(world.cfg, "gemini-pro"))

\* the listing [embedding, 2.5-flash, flash-latest, pro-latest]: the
\* flash-latest identifier is adopted
C11_Witness ==
    /\ Listed
    /\ world.listing.names =
           << "models/gemini-embedding-001", "models/gemini-2.5-flash",
              "models/gemini-flash-latest", "models/gemini-pro-latest" >>
    /\ mgr._online
    /\ mgr._model_name = "models/gemini-flash-latest"

----------------------------------------------------------------------------
(* OllamaManager constructed on a daemon.  The daemon is what the health   *)
(* endpoint answers to the successive client.list() calls: `first` to the  *)
(* probe before the spawn; after the spawn the first `fails` calls fail    *)
(* with `failure` and the later ones list the registry.                    *)

Daemons ==
    { [first |-> "up", spawn |-> "ok", fails |-> 0,
       failure |-> "ResponseError"] }
        \cup [first : {"ResponseError", "ConnectionError"},
              spawn : {"FileNotFound", "Error"},
              fails : {0, retries + 1},
              failure : {"ConnectionError"}]
        \cup [first : {"ResponseError", "ConnectionError"},
              spawn : {"ok"},
              fails : 0..(retries + 1),
              failure : {"ResponseError", "ConnectionError"}]

Registries == { c.names : c \in { o \in CheckOutcomes : o.t = "ok" } }

\* the environment of __init__ that the daemon d with this registry makes
EnvOf(d, registry) ==
    LET polls_env ==
            [probe0 |-> IF d.first = "up" THEN "ok"
                        ELSE IF d.first = "ResponseError"
                        THEN "ResponseError" ELSE "Error",
             spawn |-> d.spawn,
             fails |-> IF d.failure = "ResponseError"
                       THEN (IF d.fails < retries THEN d.fails ELSE retries)
                       ELSE 0,
             then |-> IF d.failure = "ResponseError" \/ d.fails = 0
                      THEN "ok" ELSE "Error",
             check |-> [t |-> "raise", names |-> {}]]
        calls == start_ollama_server(polls_env).polls
        answers == \/ d.first = "up"
                   \/ calls + 1 > d.fails
    IN  [polls_env EXCEPT
            !.check = IF answers THEN [t |-> "ok", names |-> registry]
                      ELSE [t |-> "raise", names |-> {}]]

InitBoot ==
    /\ ExtractorIdle
    /\ kind = "ollama"
    /\ world \in { [t |-> "daemon", cfg |-> cfg, d |-> d, registry |-> r] :
                      cfg \in ModelConfigs, d \in Daemons, r \in Registries }
    /\ mgr = Mgr(FALSE, "n/a", "None", world.cfg, "n/a", "None")
    /\ hist = [started |-> FALSE] @@ Op("none", {}, FALSE, FALSE, "None", 0)
    /\ reloads = 0
    /\ res = NoCall
    /\ proc = NoProc
    /\ prompts = NoPrompts
    /\ gen = NoGen
    /\ rl = NoRl

\* OllamaManager(model_config); started is the flag that
\* _start_ollama_server left, before _check_connection replaces it
OllamaConstruct ==
    /\ hist.op = "none"
    /\ LET e == EnvOf(world.d, world.registry)
           s == start_ollama_server(e)
       IN  /\ mgr' = OllamaInit(world.cfg, e)
           /\ hist' = [started |-> s.online]
                          @@ Op("init", OllamaInitErrors(e), TRUE, FALSE,
                                "None", s.polls)
           /\ proc' = [proc EXCEPT !.state = IF s.process = "None"
                                             THEN "none" ELSE "running"]
    /\ UNCHANGED <<xvars, kind, reloads, res, world, prompts, gen, rl>>

NextBoot == OllamaConstruct

SpecBoot == InitBoot /\ [][NextBoot]_vars

----------------------------------------------------------------------------
(* The life of an OllamaManager after construction: reload, close, the     *)
(* finalizer.  The daemon was running already, or the constructor spawned  *)
(* it; `term` is what a spawned daemon does on terminate().                *)

LifeEnvs ==
    { e \in OllamaEnvs :
        /\ e.then = "ok"
        /\ e.fails = 0
        /\ \/ e.probe0 = "ok" /\ e.spawn = "ok"
           \/ e.probe0 = "Error" /\ e.spawn = "ok" }

InitLife ==
    /\ ExtractorIdle
    /\ kind = "ollama"
    /\ \E cfg \in ModelConfigs, e \in LifeEnvs, term \in {"exits", "ignored"} :
          /\ e.probe0 = "ok" => term = "exits"
          /\ mgr = OllamaInit(cfg, e)
          /\ hist = Op("init", OllamaInitErrors(e), TRUE, FALSE, "None",
                       start_ollama_server(e).polls)
          /\ world = [t |-> "life", check |-> e.check, term |-> term]
          /\ proc = [NoProc EXCEPT
                        !.state = IF start_ollama_server(e).process = "None"
                                  THEN "none" ELSE "running"]
    /\ reloads = 0
    /\ res = NoCall
    /\ prompts = NoPrompts
    /\ gen = NoGen
    /\ rl = NoRl

\* manager.reload(model_config); check is what the daemon answers now
LifeReload ==
    /\ ~proc.finalized
    /\ reloads < MaxReloads
    /\ \E cfg \in ModelConfigs, check \in CheckOutcomes :
          /\ mgr' = OllamaReloaded(mgr, cfg, check)
          /\ hist' = Op("reload",
                        IF check.t = "raise" THEN {"check"} ELSE {},
                        TRUE, mgr._online, "None", 0)
          /\ world' = [world EXCEPT !.check = check]
    /\ reloads' = reloads + 1
    /\ UNCHANGED <<xvars, kind, res, proc, prompts, gen, rl>>

\* manager.close()
LifeClose ==
    /\ ~proc.finalized
    /\ proc.closes < MaxCloses
    /\ LET c == close(mgr, proc, world.term)
       IN  /\ mgr' = c.mgr
           /\ proc' = [c.proc EXCEPT !.closes = @ + 1]
           /\ hist' = Op("close", c.errors, FALSE, mgr._online, "None", 0)
    /\ UNCHANGED <<xvars, kind, reloads, res, world, prompts, gen, rl>>

\* __del__: the object is collected, close() runs once more
LifeFinalize ==
    /\ ~proc.finalized
    /\ LET c == close(mgr, proc, world.term)
       IN  /\ mgr' = c.mgr
           /\ proc' = [c.proc EXCEPT !.closes = @ + 1, !.finalized = TRUE]
           /\ hist' = Op("del", c.errors, FALSE, mgr._online, "None", 0)
    /\ UNCHANGED <<xvars, kind, reloads, res, world, prompts, gen, rl>>

\* the spawned daemon exits by itself
DaemonExits ==
    /\ proc.state = "running"
    /\ proc' = [proc EXCEPT !.state = "exited"]
    /\ hist' = Op("exit", {}, FALSE, mgr._online, "None", 0)
    /\ UNCHANGED <<xvars, kind, mgr, reloads, res, world, prompts, gen, rl>>

NextLife ==
    \/ LifeReload
    \/ LifeClose
    \/ LifeFinalize
    \/ DaemonExits

SpecLife == InitLife /\ [][NextLife]_vars

----------------------------------------------------------------------------
(* Properties of the daemon bootstrap, under SpecBoot.  hist.polls is the  *)
(* number of client.list() calls that the loop after the spawn made.       *)

Configured == ConfigName(world.cfg, "None")

\* the constructor has run, on a daemon that was down and that it spawned
BootSpawned ==
    /\ hist.op = "init"
    /\ world.d.first # "up"
    /\ world.d.spawn = "ok"

\* C12 as stated: the configured model is in the registry and the health
\* endpoint fails k times, k below the retry budget, with whatever failure,
\* and answers from then on: the gateway is online and the bootstrap made
\* exactly k + 1 attempts.
C12_OnlineAfterKPlusOneAttempts ==
    (/\ BootSpawned
     /\ world.d.fails < retries
     /\ Configured \in world.registry) =>
        /\ mgr._online
        /\ hist.polls = world.d.fails + 1

\* C13: one bootstrap makes at most `retries` attempts after the spawn; when
\* every attempt it made failed it ends with the flag not online, and when
\* the endpoint never answers the constructed gateway is not online.
C13_PollsWithinRetryBudget ==
    hist.op = "init" =>
        /\ hist.polls <= retries
        /\ (BootSpawned /\ hist.polls <= world.d.fails) => ~hist.started
        /\ (world.d.first # "up" /\ world.d.fails > hist.polls) =>
               ~mgr._online

\* every one of the `retries` attempts failed and so does the final check,
\* with the configured model in the registry
C13_Witness ==
    /\ BootSpawned
    /\ world.d.failure = "ResponseError"
    /\ world.d.fails = retries + 1
    /\ hist.polls = retries
    /\ Configured \in world.registry
    /\ ~hist.started
    /\ ~mgr._online

----------------------------------------------------------------------------
(* Properties of reload and close, under SpecLife.  world.check is what    *)
(* the daemon answered to the last _check_connection.                      *)

\* C14: after init or reload the gateway is online only if the last check
\* listed the exact configured name; the model name is the configured one,
\* whatever the registry holds.
C14_OnlineOnlyWithExactModel ==
    hist.op \in {"init", "reload"} =>
        /\ mgr._model_name = ConfigName(mgr._model_config, "None")
        /\ mgr._online =>
               /\ world.check.t = "ok"
               /\ mgr._model_name # "None"
               /\ mgr._model_name \in world.check.names

\* reload to "m1" while the registry holds only the tag "m1:latest"
C14_Witness ==
    /\ hist.op = "reload"
    /\ world.check = [t |-> "ok", names |-> {"m1:latest"}]
    /\ mgr._model_name = "m1"
    /\ ~mgr._online

\* C15 as stated: close() or the finalizer has returned and the handle of
\* the spawned daemon is released: the daemon is not running, and a daemon
\* that did not exit on terminate was killed.
C15_CloseLeavesNoRunningDaemon ==
    (/\ hist.op \in {"close", "del"}
     /\ proc.state # "none"
     /\ mgr._ollama_process = "None") =>
        /\ proc.state = "exited"
        /\ world.term = "ignored" =>
               \E i \in 1..Len(proc.signals) : proc.signals[i] = "kill"

\* C16: once one close() has returned, a further close(), the finalizer's
\* included, sends no signal and changes no field of the manager.
C16_FurtherCloseDoesNothing ==
    [][(proc.closes >= 1 /\ proc'.closes = proc.closes + 1) =>
          /\ mgr' = mgr
          /\ proc'.signals = proc.signals
          /\ proc'.state = proc.state]_vars

\* the finalizer runs after two close() calls, the first of which signalled
\* a daemon that does not exit on terminate
C16_Witness ==
    /\ hist.op = "del"
    /\ proc.closes = 3
    /\ proc.signals = <<"terminate">>
    /\ world.term = "ignored"
    /\ proc.state = "running"

----------------------------------------------------------------------------
(* generate and reload on one remote manager, called from two threads.     *)
(* Neither class holds a lock: each step is one load or store of a field   *)
(* of the manager object, and a step of the other call can stand between   *)
(* any two of them.  GroqManager.generate_content evaluates the arguments  *)
(* of create() in the order name, temperature, max_tokens; GeminiManager.  *)
(* get_model builds generation_config first and reads the name last.       *)

\* the fields that a generate call sends, as the manager m holds them
Snapshot(m) ==
    [name |-> m._model_name,
     temperature |-> m._model_config.temperature,
     max_tokens |-> m._model_config.max_tokens]

ReadOrder(k) ==
    IF k = "groq" THEN <<"name", "temperature", "max_tokens">>
    ELSE <<"temperature", "max_tokens", "name">>

DefaultName(k) == IF k = "groq" THEN "llama3-8b-8192" ELSE "gemini-pro"

Idle(todo) ==
    [pc |-> "idle", todo |-> todo, name |-> "None", temperature |-> 0,
     max_tokens |-> 0]

InitRace ==
    /\ ExtractorIdle
    /\ kind \in {"groq", "gemini"}
    /\ \E cfg \in ModelConfigs :
          \/ /\ kind = "groq"
             /\ \E e \in GroqEnvs : mgr = GroqInit(cfg, e)
          \/ /\ kind = "gemini"
             /\ \E e \in GeminiEnvs : mgr = GeminiInit(cfg, e)
    /\ hist = Op("init", {}, FALSE, FALSE, "None", 0)
    /\ reloads = 0
    /\ res = NoCall
    /\ world = NoWorld
    /\ proc = NoProc
    /\ prompts = NoPrompts
    /\ gen = Idle(<<>>)
    /\ rl = [pc |-> "idle", cfg |-> mgr._model_config,
             held |-> {Snapshot(mgr)}]

\* reload, first statement: self._model_config = model_config
ReloadStoreConfig ==
    /\ rl.pc = "idle"
    /\ reloads < MaxReloads
    /\ \E cfg \in ModelConfigs :
          /\ mgr' = [mgr EXCEPT !._model_config = cfg]
          /\ rl' = [rl EXCEPT !.pc = "config_stored", !.cfg = cfg]
    /\ reloads' = reloads + 1
    /\ UNCHANGED <<xvars, kind, hist, res, world, proc, prompts, gen>>

\* reload, second statement: self._model_name = model_config.get("name", ..)
\* rl.held collects the configurations that the manager held between calls
ReloadStoreName ==
    /\ rl.pc = "config_stored"
    /\ mgr' = [mgr EXCEPT !._model_name = ConfigName(rl.cfg, DefaultName(kind))]
    /\ rl' = [rl EXCEPT !.pc = "idle", !.held = @ \cup {Snapshot(mgr')}]
    /\ hist' = Op("reload", {}, FALSE, mgr._online, "None", 0)
    /\ UNCHANGED <<xvars, kind, reloads, res, world, proc, prompts, gen>>

\* generate_content / get_model: the guard on _online (and on the client)
GenBegin ==
    /\ gen.pc \in {"idle", "sent", "refused"}
    /\ gen' = IF mgr._online /\ mgr._client # "None"
              THEN [Idle(ReadOrder(kind)) EXCEPT !.pc = "reading"]
              ELSE [Idle(<<>>) EXCEPT !.pc = "refused"]
    /\ UNCHANGED <<xvars, kind, mgr, hist, reloads, res, world, proc,
                   prompts, rl>>

\* model=self._model_name
GenReadName ==
    /\ gen.pc = "reading"
    /\ gen.todo # <<>> /\ Head(gen.todo) = "name"
    /\ gen' = [gen EXCEPT !.name = mgr._model_name, !.todo = Tail(@)]
    /\ UNCHANGED <<xvars, kind, mgr, hist, reloads, res, world, proc,
                   prompts, rl>>

\* temperature=self._model_config.get("temperature", 0.7)
GenReadTemperature ==
    /\ gen.pc = "reading"
    /\ gen.todo # <<>> /\ Head(gen.todo) = "temperature"
    /\ gen' = [gen EXCEPT !.temperature = mgr._model_config.temperature,
                          !.todo = Tail(@)]
    /\ UNCHANGED <<xvars, kind, mgr, hist, reloads, res, world, proc,
                   prompts, rl>>

\* max_tokens=self._model_config.get("max_tokens", 1024)
GenReadMaxTokens ==
    /\ gen.pc = "reading"
    /\ gen.todo # <<>> /\ Head(gen.todo) = "max_tokens"
    /\ gen' = [gen EXCEPT !.max_tokens = mgr._model_config.max_tokens,
                          !.todo = Tail(@)]
    /\ UNCHANGED <<xvars, kind, mgr, hist, reloads, res, world, proc,
                   prompts, rl>>

\* the call of chat.completions.create / GenerativeModel with what was read
GenSend ==
    /\ gen.pc = "reading"
    /\ gen.todo = <<>>
    /\ gen' = [gen EXCEPT !.pc = "sent"]
    /\ hist' = Op("generate", {}, kind = "groq", mgr._online, "sent", 0)
    /\ UNCHANGED <<xvars, kind, mgr, reloads, res, world, proc, prompts, rl>>

NextRace ==
    \/ ReloadStoreConfig
    \/ ReloadStoreName
    \/ GenBegin
    \/ GenReadName
    \/ GenReadTemperature
    \/ GenReadMaxTokens
    \/ GenSend

SpecRace == InitRace /\ [][NextRace]_vars

\* C17 as stated: what a generate call sends is, in its three fields, one
\* of the configurations that the manager held before or after a reload.
C17_GenerateSeesOneConfiguration ==
    gen.pc = "sent" =>
        \E c \in rl.held :
            /\ gen.name = c.name
            /\ gen.temperature = c.temperature
            /\ gen.max_tokens = c.max_tokens

----------------------------------------------------------------------------
(* Timeout of a request, under Spec *)

\* C18 as stated: the gateway is online, candidates are given, the prompts
\* are built and the backend does not answer: generate_recommendations
\* returns a timeout error and no records.
C18_BackendTimeoutSurfaced ==
    (/\ res.called
     /\ res.was_online
     /\ res.cands # <<>>
     /\ res.template = "ok"
     /\ res.backend.t = "hang") =>
        /\ ~res.out.raised
        /\ res.out.error = "timeout"
        /\ res.out.recomendaciones = <<>>

----------------------------------------------------------------------------
(* The two prompt builders on a candidate list *)

Catalogs ==
    { Catalog(n) : n \in 0..MaxCatalog }
        \cup { Reverse(Catalog(n)) : n \in 0..MaxCatalog }

\* the pieces that a hobby or interest text is written with: a word, a
\* word of two letters, a comma, a blank
Pieces ==
    { <<"A", "r", "t", "e">>, <<"t", "v">>, <<",">>, <<" ">> }

RECURSIVE Concat(_)
Concat(ps) == IF ps = <<>> THEN <<>> ELSE Head(ps) \o Concat(Tail(ps))

\* n words, separated by a comma and a blank
RECURSIVE WordList(_)
WordList(n) ==
    IF n = 0 THEN <<>>
    ELSE IF n = 1 THEN <<"A", "r", "t", "e">>
    ELSE WordList(n - 1) \o <<",", " ", "A", "r", "t", "e">>

\* hobbies and intereses of a request: None, or a text
ProfileTexts ==
    {NoText}
        \cup { Str(Concat(ps)) : ps \in SeqsUpTo(Pieces, MaxPieces) }
        \cup { Str(WordList(MaxWords)) }

InitPrompt ==
    /\ actividades_disponibles \in Catalogs
    /\ response_text = <<>>
    /\ xpc = "idle"
    /\ xout = NotCalled
    /\ kind = "groq"
    /\ mgr = GroqInit(Config("m1", 70, 1024),
                      [api_key |-> TRUE, client |-> "ok", probe |-> "ok"])
    /\ hist = Op("init", {}, TRUE, FALSE, "None", 0)
    /\ reloads = 0
    /\ res = NoCall
    /\ world \in [t : {"template"}, template : Templates,
                  hobbies : ProfileTexts, intereses : ProfileTexts]
    /\ \/ world.hobbies = NoText /\ world.intereses = NoText
       \/ Len(actividades_disponibles) <= 1 /\ world.template = "ok"
    /\ proc = NoProc
    /\ prompts = NoPrompts
    /\ gen = NoGen
    /\ rl = NoRl

\* nlp_core.py: create_system_prompt(...) and create_recommendation_prompt(...)
\* on the candidates of the request; a system prompt that raises ends the
\* request before the user prompt is built
BuildPrompts ==
    /\ ~prompts.built
    /\ LET system == create_system_prompt(world.template,
                                          actividades_disponibles)
       IN  prompts' =
               [built |-> TRUE,
                system |-> system,
                user |-> IF system.raised
                         THEN [raised |-> TRUE, serialized |-> <<>>,
                               shown |-> <<>>, keywords |-> <<>>]
                         ELSE create_recommendation_prompt(
                                  actividades_disponibles,
                                  world.hobbies, world.intereses)]
    /\ UNCHANGED <<xvars, kind, mgr, hist, reloads, res, world, proc, gen, rl>>

NextPrompt == BuildPrompts

SpecPrompt == InitPrompt /\ [][NextPrompt]_vars

\* the first min(n, 30) candidates of the list, in its order
FirstThirty(cands) ==
    [i \in 1..(IF Len(cands) < 30 THEN Len(cands) ELSE 30) |-> cands[i]]

Elems(seq) == { seq[i] : i \in 1..Len(seq) }

\* C19: each of the two builders serializes the first min(n, 30) candidates
\* of the list in their order; the text of the user prompt holds exactly
\* those, and so does the text of a system prompt whose template has the
\* candidates field; no prompt holds a candidate beyond the first 30.
C19_PromptsSerializeFirstThirty ==
    (prompts.built /\ ~prompts.system.raised) =>
        /\ prompts.system.serialized = FirstThirty(actividades_disponibles)
        /\ prompts.user.serialized = FirstThirty(actividades_disponibles)
        /\ prompts.user.shown = FirstThirty(actividades_disponibles)
        /\ world.template = "ok" =>
               prompts.system.shown = FirstThirty(actividades_disponibles)
        /\ \A i \in 31..Len(actividades_disponibles) :
               actividades_disponibles[i]
                   \notin Elems(prompts.system.shown)
                              \cup Elems(prompts.user.shown)

\* 45 candidates: both prompts hold the first 30 and none of the last 15
C19_Witness ==
    /\ prompts.built
    /\ Len(actividades_disponibles) = 45
    /\ world.template = "ok"
    /\ Len(prompts.system.shown) = 30
    /\ Len(prompts.user.shown) = 30
    /\ prompts.user.shown[30] = actividades_disponibles[30]
    /\ \A i \in 31..45 :
           actividades_disponibles[i] \notin Elems(prompts.user.shown)

----------------------------------------------------------------------------
(* A reply with nothing to extract, under SpecExtract *)

\* the reply is plain text only: no marker object, no "actividad_id": n
PlainTextOnly(text) == \A i \in 1..Len(text) : text[i].k = "text"

\* the candidates that have a title, and whose title the reply mentions
MentionedByTitle(text, cands) ==
    { j \in 1..Len(cands) :
        /\ Strip(cands[j].titulo) # <<>>
        /\ \E i \in 1..Len(text) :
              IsSubstring(Strip(cands[j].titulo), text[i].chars) }

\* C20: a reply that holds no marker object, no id-bearing fragment and no
\* title of a candidate gives the empty list, and no error is raised.
C20_NothingRecognizableGivesEmptyList ==
    (/\ xpc = "done"
     /\ PlainTextOnly(response_text)
     /\ MentionedByTitle(response_text, actividades_disponibles) = {}) =>
        /\ ~xout.raised
        /\ xout.recs = <<>>

\* a reply of plain text and a titled candidate that it does not mention
C20_Witness ==
    /\ xpc = "done"
    /\ response_text # <<>>
    /\ PlainTextOnly(response_text)
    /\ \E j \in 1..Len(actividades_disponibles) :
          Strip(actividades_disponibles[j].titulo) # <<>>
    /\ MentionedByTitle(response_text, actividades_disponibles) = {}
    /\ ~xout.raised
    /\ xout.recs = <<>>

----------------------------------------------------------------------------
(* The cascade of stages, under SpecExtract *)

\* the records that the marker stages and the bare-id scan accept
StructuredAccepted(text, cands) ==
    LET st0 == [recommendations |-> <<>>, processed_ids |-> {}]
        m1 == FindAllJson(text)
        matches == IF m1 = <<>> THEN FindAllMultiline(text) ELSE m1
        st1 == IF matches = <<>>
               THEN BareIdScan(st0, cands, FindAllIds(text), 1)
               ELSE st0
    IN  ProcessMatches(st1, cands, matches, 1).recommendations

\* the candidates with a usable id whose title, longer than 3 characters,
\* occurs in the reply
TitleCandidates(text, cands) ==
    { j \in MentionedByTitle(text, cands) :
        /\ Len(Strip(cands[j].titulo)) > MinTitleLen
        /\ cands[j].id # 0 }

Least(S) == CHOOSE j \in S : \A k \in S : j <= k

\* C21: whenever the marker stages and the bare-id scan accept no record and
\* the reply mentions the title of some candidate with a usable id, the
\* result is exactly one record, for the first such candidate.
C21_TitleFallbackWhenNothingAccepted ==
    (/\ xpc = "done"
     /\ StructuredAccepted(response_text, actividades_disponibles) = <<>>
     /\ TitleCandidates(response_text, actividades_disponibles) # {}) =>
        /\ ~xout.raised
        /\ Len(xout.recs) = 1
        /\ xout.recs[1].actividad =
               actividades_disponibles[
                   Least(TitleCandidates(response_text,
                                         actividades_disponibles))]
        /\ xout.recs[1].razon = "default_title"

\* C22: the extractor returns a list and raises nothing, for every reply
\* and every candidate list.
C22_ExtractorNeverRaises ==
    xpc = "done" => ~xout.raised

\* the marker objects of the reply that stand before position i and name
\* the id of the fragment at i
EarlierSameId(text, i) ==
    { j \in 1..(i - 1) :
        /\ text[j].k \in {"json", "bad", "nested"}
        /\ text[j].id = text[i].id }

\* C23: a well-formed marker object with a nested object is parsed whole:
\* for a valid candidate id that no earlier object names, the result holds
\* a record with the reason and the score that the object supplies.
C23_NestedObjectKeepsReasonAndScore ==
    xpc = "done" =>
        \A i \in 1..Len(response_text) :
            (/\ response_text[i].k = "nested"
             /\ response_text[i].id.v
                    \in actividad_ids_set(actividades_disponibles)
             /\ EarlierSameId(response_text, i) = {}) =>
                \E r \in Elems(xout.recs) :
                    /\ r.actividad_id = response_text[i].id.v
                    /\ r.razon = response_text[i].razon
                    /\ r.puntuacion = response_text[i].puntuacion

\* C24: a marker object that json.loads rejects and that names a candidate
\* id not yet accepted gives a record with the default reason and score;
\* one without such an id is dropped, and the objects after it still give
\* their records.
C24_MalformedObjectSalvaged ==
    xpc = "done" =>
        \A i \in 1..Len(response_text) :
            LET f == response_text[i]
            IN  (/\ f.k \in {"json", "bad"}
                 /\ f.id.t = "int"
                 /\ f.id.v \in actividad_ids_set(actividades_disponibles)
                 /\ EarlierSameId(response_text, i) = {}) =>
                    \E r \in Elems(xout.recs) :
                        /\ r.actividad_id = f.id.v
                        /\ f.k = "bad" =>
                               /\ r.razon = "default"
                               /\ r.puntuacion = Num(DefaultScore)

----------------------------------------------------------------------------
(* The keyword list of the user prompt, under SpecPrompt *)

\* C25: every keyword that the user prompt surfaces is trimmed, is longer
\* than 2 characters and holds no comma and no whitespace; at most 20 are
\* surfaced; without hobby and interest text there is none.
C25_KeywordsSplitOnCommasAndWhitespace ==
    (prompts.built /\ ~prompts.user.raised) =>
        /\ Len(prompts.user.keywords) <= KeywordCap
        /\ \A i \in 1..Len(prompts.user.keywords) :
               LET k == prompts.user.keywords[i]
               IN  /\ Strip(k) = k
                   /\ Len(k) > MinKeywordLen
                   /\ "," \notin Elems(k)
                   /\ " " \notin Elems(k)
        /\ (Falsy(world.hobbies) /\ Falsy(world.intereses)) =>
               prompts.user.keywords = <<>>

----------------------------------------------------------------------------
(* The flag that the constructor of the daemon gateway leaves, under       *)
(* SpecBoot *)

\* the daemon answers the list() call of the final check, and its registry
\* holds the configured name
FinalCheckSucceeds ==
    /\ world.d.first = "up" \/ hist.polls + 1 > world.d.fails
    /\ Configured # "None"
    /\ Configured \in world.registry

\* C26: after construction is_online() is the outcome of the final check
\* alone, whatever flag the bootstrap left: a bootstrap that failed to
\* spawn or used up its attempts ends online when the final check succeeds,
\* and one that succeeded ends offline when the final check fails.
C26_OnlineIsFinalCheckAlone ==
    hist.op = "init" =>
        /\ mgr._online <=> FinalCheckSucceeds
        /\ (~hist.started /\ FinalCheckSucceeds) => mgr._online
        /\ (hist.started /\ ~FinalCheckSucceeds) => ~mgr._online

\* every attempt of the bootstrap failed, the flag it left is unset, and
\* the daemon answers the final check with the configured model
C26_Witness ==
    /\ BootSpawned
    /\ hist.polls = retries
    /\ world.d.fails = retries
    /\ ~hist.started
    /\ FinalCheckSucceeds
    /\ mgr._online

----------------------------------------------------------------------------
(* reload on the remote gateways, under Spec *)

\* the name that reload stores when the configuration has none
ReloadDefaultName == IF kind = "groq" THEN "llama3-8b-8192" ELSE "gemini-pro"

\* C27: a reload of a Groq or Gemini gateway stores the configuration and
\* the name it configures and nothing else: it makes no network call, the
\* online flag, the client and the name that auto-selection found stay as
\* they were, so an offline gateway stays offline, and on Gemini the
\* selected name gives way to the configured one.
C27_RemoteReloadReplacesConfigOnly ==
    [][(kind \in {"groq", "gemini"} /\ reloads' = reloads + 1) =>
          /\ hist'.op = "reload"
          /\ ~hist'.net
          /\ hist'.errors = {}
          /\ mgr'._online = mgr._online
          /\ mgr'._client = mgr._client
          /\ mgr'._available_model_name = mgr._available_model_name
          /\ mgr'._ollama_process = mgr._ollama_process
          /\ mgr'._model_config \in ModelConfigs
          /\ mgr'._model_name =
                 ConfigName(mgr'._model_config, ReloadDefaultName)]_vars

\* a Gemini gateway whose name came from auto-selection, after as many
\* reloads as the bound allows: it is still online, the selected name is
\* still recorded, and the name in use is the configured one
C27_Witness ==
    /\ kind = "gemini"
    /\ hist.op = "reload"
    /\ reloads = MaxReloads
    /\ mgr._online
    /\ mgr._available_model_name = "models/gemini-flash-latest"
    /\ mgr._model_name = ConfigName(mgr._model_config, "gemini-pro")
    /\ mgr._model_name # mgr._available_model_name

====
